---- MODULE Spec2Model ----
(***************************************************************************)
(* GripperWithForceSensor (src/lzhgripperwithforcesensor/app.py): the      *)
(* session object of a gripper driver.  The state is the object's fields;  *)
(* every public method and both transport handlers are one action each.    *)
(*                                                                         *)
(* Forces and thresholds are Python floats in the source; here they are    *)
(* integers (whole kg), which keeps every comparison of the source exact.  *)
(* A JSON / Python value is a record [t, n, s]: its type, its numeric      *)
(* value and its text, so that values of different types can be compared.  *)
(* A Python dict is the sequence of its <<key, value>> items in insertion  *)
(* order (the order json.dumps writes them in).                            *)
(***************************************************************************)
EXTENDS Integers, Sequences, FiniteSets, TLC

\* ------------------------------------------------------------------ bounds
\* Force samples range over -MaxForce..MaxForce; MaxForce is the largest
\* threshold.
MaxForce == 2

\* ------------------------------------------------------------------ values
IntV(n)   == [t |-> "int",   n |-> n, s |-> ""]
FloatV(n) == [t |-> "float", n |-> n, s |-> ""]
BoolV(n)  == [t |-> "bool",  n |-> n, s |-> ""]
StrV(x)   == [t |-> "str",   n |-> 0, s |-> x]
NoValue   == [t |-> "none",  n |-> 0, s |-> ""]

\* abs(), <, >=, - are defined on int, float and bool; TypeError otherwise.
IsNumber(v) == v.t \in {"int", "float", "bool"}

Abs(n) == IF n < 0 THEN 0 - n ELSE n

Forces     == (0 - MaxForce)..MaxForce
Thresholds == {0, 1, MaxForce}

K_MODE   == "mode"
K_ACTION == "action"
K_FORCE  == "force"
K_FSZ    == "force_sensor_zeroing"
K_TEMP   == "temp"

\* ------------------------------------------------------------------- dicts
DictKeys(d) == {d[i][1] : i \in 1..Len(d)}

Has(d, k) == k \in DictKeys(d)

Get(d, k) == d[CHOOSE i \in 1..Len(d) : d[i][1] = k][2]

\* d[k] = v: an existing key keeps its place, a new key goes last.
dict_setitem(d, k, v) ==
    IF Has(d, k)
    THEN [i \in 1..Len(d) |-> IF d[i][1] = k THEN <<k, v>> ELSE d[i]]
    ELSE Append(d, <<k, v>>)

\* d.pop(k) for a key that is present.
dict_pop(d, k) == SelectSeq(d, LAMBDA p : p[1] # k)

\* A buggy merge: the message replaces the state instead of being merged.
dict_update_replace(d, r) == r

\* d.update(r) for a dict r: every item of r is stored, nothing is removed.
RECURSIVE dict_update(_, _)
dict_update(d, r) ==
    IF r = <<>> THEN d
    ELSE dict_update(dict_setitem(d, r[1][1], r[1][2]), Tail(r))

\* The state mapping built by __init__.
InitStatus ==
    << <<K_MODE, IntV(1)>>, <<K_ACTION, StrV("release")>>, <<K_FORCE, FloatV(0)>> >>

\* ---------------------------------------------------------------- messages
\* An inbound raw message, by what json.loads makes of it: text that is not
\* JSON, a JSON object (a dict), a JSON array (a list of items) or a number.
TextMsg   == [kind |-> "text",   obj |-> <<>>, items |-> <<>>]
ObjMsg(d) == [kind |-> "object", obj |-> d,    items |-> <<>>]
ArrMsg(a) == [kind |-> "array",  obj |-> <<>>, items |-> a]
NumMsg    == [kind |-> "number", obj |-> <<>>, items |-> <<>>]
NoMsg     == [kind |-> "none",   obj |-> <<>>, items |-> <<>>]

\* An item of a JSON array: a two-element list [k, v], or a scalar v.
PairItem(k, v) == [pair |-> TRUE,  k |-> k,  v |-> v]
ScalarItem(v)  == [pair |-> FALSE, k |-> "", v |-> v]

\* The messages the transport delivers in this model.
InboundMsgs ==
    {TextMsg, NumMsg}
    \cup {ObjMsg(<< <<K_FORCE, FloatV(f)>> >>) : f \in Forces}
    \cup {ObjMsg(<< <<K_FORCE, StrV("x")>> >>),
          ObjMsg(<< <<K_FSZ, StrV("")>>, <<K_FORCE, FloatV(1)>>,
                    <<K_TEMP, IntV(1)>> >>),
          ObjMsg(<< <<K_MODE, IntV(2)>>, <<K_ACTION, StrV("grip")>>,
                    <<K_TEMP, IntV(1)>> >>),
          ArrMsg(<< PairItem(K_FSZ, StrV("")) >>),
          ArrMsg(<< PairItem(K_FORCE, FloatV(1)), ScalarItem(IntV(5)) >>)}

\* An outbound message is JSON text: the sequence of its "key": value
\* members, each value as the text written for it.
json_text(v) ==
    CASE v.t = "int"   -> ToString(v.n)
      [] v.t = "float" -> ToString(v.n) \o ".0"
      [] v.t = "bool"  -> (IF v.n = 1 THEN "true" ELSE "false")
      [] OTHER         -> "\"" \o v.s \o "\""

json_dumps(d) == [i \in 1..Len(d) |-> <<d[i][1], json_text(d[i][2])>>]

\* str() as an f-string applies it.
py_str(v) ==
    CASE v.t = "int"   -> ToString(v.n)
      [] v.t = "float" -> ToString(v.n) \o ".0"
      [] v.t = "bool"  -> (IF v.n = 1 THEN "True" ELSE "False")
      [] OTHER         -> v.s

\* ------------------------------------------------------- the message handler
\* Every step of the handler's try block yields the exception it raises
\* ("None" when it raises nothing) beside its result.

\* json.loads(msg)
json_loads(msg) ==
    [exc |-> IF msg.kind = "text" THEN "JSONDecodeError" ELSE "None", val |-> msg]

\* `k in res`: a key of a dict, an element of a list; a number has no `in`.
contains(res, k) ==
    CASE res.kind = "object" -> IF Has(res.obj, k) THEN "True" ELSE "False"
      [] res.kind = "array" ->
            IF \E i \in 1..Len(res.items) :
                  ~res.items[i].pair /\ res.items[i].v = StrV(k)
            THEN "True" ELSE "False"
      [] OTHER -> "TypeError"

\* if "force_sensor_zeroing" in res: res.pop("force_sensor_zeroing")
\* (list.pop takes an index: a string raises TypeError).
strip_zeroing(res) ==
    LET c == contains(res, K_FSZ) IN
    CASE c = "TypeError" -> [exc |-> "TypeError", val |-> res]
      [] c = "False"     -> [exc |-> "None", val |-> res]
      [] OTHER ->
            IF res.kind = "object"
            THEN [exc |-> "None", val |-> ObjMsg(dict_pop(res.obj, K_FSZ))]
            ELSE [exc |-> "TypeError", val |-> res]

\* dict.update with a list: the items are stored one by one, each a sequence
\* of length two; the first that is not raises, the ones before it stay.
RECURSIVE update_from_seq(_, _)
update_from_seq(d, items) ==
    IF items = <<>> THEN [exc |-> "None", status |-> d]
    ELSE IF items[1].pair
         THEN update_from_seq(dict_setitem(d, items[1].k, items[1].v), Tail(items))
         ELSE [exc |-> "TypeError", status |-> d]

\* self._status.update(res)
status_update(d, res) ==
    IF res.kind = "object"
    THEN [exc |-> "None", status |-> dict_update(d, res.obj)]
    ELSE update_from_seq(d, res.items)

\* A buggy single-mode test: fires on every sample at/above the threshold.
single_fires_level(force_val, thr, last) == Abs(force_val.n) >= thr

\* abs(force_val) >= self._callback_threshold and
\* self._last_force < self._callback_threshold
single_fires(force_val, thr, last) == Abs(force_val.n) >= thr /\ last < thr

\* A buggy delta-mode test: compares the sample with the threshold itself.
delta_fires_abs(force_val, thr, last) == Abs(force_val.n) >= thr

\* A buggy delta-mode test: a change equal to the threshold does not count.
delta_fires_strict(force_val, thr, last) == Abs(last - force_val.n) > thr

\* abs(self._last_force - force_val) >= self._callback_threshold
delta_fires(force_val, thr, last) == Abs(last - force_val.n) >= thr

\* The threshold evaluation on force_val.  cb_raises: whether the callback,
\* if it is invoked, raises.  fired: the values the callback is invoked with.
evaluate(force_val, thr, single, last, cb_raises) ==
    IF ~IsNumber(force_val)
    THEN [exc |-> "TypeError", last_force |-> last, fired |-> <<>>]
    ELSE IF single
    THEN IF single_fires(force_val, thr, last)
         THEN IF cb_raises
              THEN [exc |-> "CallbackError", last_force |-> last,
                    fired |-> <<force_val.n>>]
              ELSE [exc |-> "None", last_force |-> force_val.n,
                    fired |-> <<force_val.n>>]
         ELSE [exc |-> "None", last_force |-> force_val.n, fired |-> <<>>]
    ELSE IF delta_fires(force_val, thr, last)
         THEN [exc |-> IF cb_raises THEN "CallbackError" ELSE "None",
               last_force |-> force_val.n, fired |-> <<force_val.n>>]
         ELSE [exc |-> "None", last_force |-> last, fired |-> <<>>]

\* What the try block leaves: the mapping, the last force, the callback
\* invocations, the mapping as an invoked callback found it (vw), and what
\* the block raises.
Outcome(st, last, fd, vw, exc) ==
    [status |-> st, last_force |-> last, fired |-> fd, view |-> vw, exc |-> exc]

\* A buggy test: evaluates the threshold whether or not a callback is set.
should_evaluate_any(res, cb) == contains(res, K_FORCE) = "True"

\* if "force" in res and self._force_callback
should_evaluate(res, cb) == contains(res, K_FORCE) = "True" /\ cb # "None"

\* A buggy try block: evaluates the threshold on the message's force before
\* the message is merged, so the callback finds the mapping as it was.
try_block_evaluate_first(msg, st, cb, thr, single, last, cb_raises) ==
    LET p == json_loads(msg)
        z == strip_zeroing(p.val)
        u == status_update(st, z.val)
        e == evaluate(Get(z.val.obj, K_FORCE), thr, single, last, cb_raises)
    IN  IF p.exc # "None" THEN Outcome(st, last, <<>>, <<>>, p.exc)
        ELSE IF z.exc # "None" THEN Outcome(st, last, <<>>, <<>>, z.exc)
        ELSE IF u.exc # "None" THEN Outcome(u.status, last, <<>>, <<>>, u.exc)
        ELSE IF should_evaluate(z.val, cb)
             THEN Outcome(u.status, e.last_force, e.fired,
                          IF e.fired # <<>> THEN st ELSE <<>>, e.exc)
        ELSE Outcome(u.status, last, <<>>, <<>>, "None")

\* The body of the try block, from the state it starts in.  The merge (line
\* 167) comes before the evaluation, so an invoked callback finds the merged
\* mapping.
try_block(msg, st, cb, thr, single, last, cb_raises) ==
    LET p == json_loads(msg)
        z == strip_zeroing(p.val)
        u == status_update(st, z.val)
        e == evaluate(Get(z.val.obj, K_FORCE), thr, single, last, cb_raises)
    IN  IF p.exc # "None" THEN Outcome(st, last, <<>>, <<>>, p.exc)
        ELSE IF z.exc # "None" THEN Outcome(st, last, <<>>, <<>>, z.exc)
        ELSE IF u.exc # "None" THEN Outcome(u.status, last, <<>>, <<>>, u.exc)
        ELSE IF should_evaluate(z.val, cb)
             THEN Outcome(u.status, e.last_force, e.fired,
                          IF e.fired # <<>> THEN u.status ELSE <<>>, e.exc)
        ELSE Outcome(u.status, last, <<>>, <<>>, "None")

\* An except clause that catches the parse error only.
ExceptClauseJson(exc) == exc = "JSONDecodeError"

\* except Exception as e
ExceptClause(exc) ==
    exc \in {"JSONDecodeError", "TypeError", "AttributeError", "ValueError",
             "CallbackError"}

\* ------------------------------------------------------------------- state
VARIABLES
    _status,                \* self._status, the DeviceState mapping
    _force_callback,        \* self._force_callback: "None" or "callback"
    _callback_threshold,    \* self._callback_threshold
    _single_callback_mode,  \* self._single_callback_mode
    _last_force,            \* self._last_force
    op,         \* the operation that ran last
    arg_msg,    \* its raw message, for _on_atc_message
    arg_mode,   \* its argument, for set_mode
    sent,       \* the messages it handed to self._atc.send, in order
    fired,      \* the values it invoked the callback with, in order
    caught,     \* the exception its except clause caught and logged
    raised,     \* the exception that left it
    ret,        \* the value force() returned
    ret_status, \* what status() returned
    arg_cfg,    \* its arguments, for set_force_callback
    cb_view,    \* the mapping as the callback found it when it was invoked
    inbound_seen,   \* an inbound message has been processed
    conc,       \* the two contexts' positions, when their steps interleave
    scen        \* the course of a delta-to-single reconfiguration

vars == <<_status, _force_callback, _callback_threshold, _single_callback_mode,
          _last_force, op, arg_msg, arg_mode, sent, fired, caught, raised,
          ret, ret_status, arg_cfg, cb_view, inbound_seen, conc, scen>>

\* The variables only the specifications SpecConc and SpecSwitch change.
aux == <<conc, scen>>

session == <<_status, _force_callback, _callback_threshold,
             _single_callback_mode, _last_force>>

\* The (callback, threshold, single mode) triples the caller passes, to the
\* constructor and to set_force_callback: a callback with every threshold in
\* either mode, and no callback (with the other parameters' smallest step and
\* delta mode).
CallbackConfigs ==
    {<<"callback", thr, single>> : thr \in Thresholds, single \in BOOLEAN}
    \cup {<<"None", 1, FALSE>>}

\* What status() returned: nothing (no call), a reference to self._status,
\* or a copy of the mapping.
NoRef == [kind |-> "none", val |-> <<>>]

\* No set_force_callback arguments.
NoCfg == <<"", 0, FALSE>>

\* What every operation reports.
ReportsBase(o, m, a, out, fd, c, r, v) ==
    /\ op' = o
    /\ arg_msg' = m
    /\ arg_mode' = a
    /\ sent' = out
    /\ fired' = fd
    /\ caught' = c
    /\ raised' = r
    /\ ret' = v

\* What one operation reports, but for what status() returns.
ReportsCall(o, m, a, out, fd, c, r, v) ==
    /\ ReportsBase(o, m, a, out, fd, c, r, v)
    /\ arg_cfg' = NoCfg
    /\ cb_view' = <<>>

\* What one operation other than status() reports.
Reports(o, m, a, out, fd, c, r, v) ==
    /\ ReportsCall(o, m, a, out, fd, c, r, v)
    /\ ret_status' = NoRef

\* __init__(host, force_callback, callback_threshold, single_callback_mode)
Init ==
    /\ _status = InitStatus
    /\ \E c \in CallbackConfigs :
          /\ _force_callback = c[1]
          /\ _callback_threshold = c[2]
          /\ _single_callback_mode = c[3]
    /\ _last_force = 0
    /\ op = "__init__"
    /\ arg_msg = NoMsg
    /\ arg_mode = NoValue
    /\ sent = <<>>
    /\ fired = <<>>
    /\ caught = "None"
    /\ raised = "None"
    /\ ret = NoValue
    /\ ret_status = NoRef
    /\ arg_cfg = NoCfg
    /\ cb_view = <<>>
    /\ inbound_seen = FALSE
    /\ conc = [h_pc |-> "idle", h_force |-> 0, h_reads |-> <<>>,
               s_pc |-> "idle", c_old |-> NoCfg, c_new |-> NoCfg]
    /\ scen = [phase |-> "start", prev |-> 0, seen_a |-> FALSE, seen_b |-> FALSE]

\* A buggy _on_connect: sends the state as it was at construction.
_on_connect_defaults ==
    /\ Reports("_on_connect", NoMsg, NoValue, <<json_dumps(InitStatus)>>, <<>>,
               "None", "None", NoValue)
    /\ UNCHANGED <<session, inbound_seen, aux>>

\* self._atc.send(json.dumps(self._status))
_on_connect ==
    /\ Reports("_on_connect", NoMsg, NoValue, <<json_dumps(_status)>>, <<>>,
               "None", "None", NoValue)
    /\ UNCHANGED <<session, inbound_seen, aux>>

\* A buggy prepare: records the commanded action in the mapping.
prepare_recording ==
    /\ Reports("prepare", NoMsg, NoValue,
               << << <<K_ACTION, json_text(StrV("prepare"))>> >> >>, <<>>,
               "None", "None", NoValue)
    /\ _status' = dict_setitem(_status, K_ACTION, StrV("prepare"))
    /\ UNCHANGED <<_force_callback, _callback_threshold,
                   _single_callback_mode, _last_force, inbound_seen, aux>>

\* prepare(): self._atc.send('{"action": "prepare"}')
prepare ==
    /\ Reports("prepare", NoMsg, NoValue,
               << << <<K_ACTION, json_text(StrV("prepare"))>> >> >>, <<>>,
               "None", "None", NoValue)
    /\ UNCHANGED <<session, inbound_seen, aux>>

\* A buggy grip: sends its command twice.
grip_twice ==
    /\ Reports("grip", NoMsg, NoValue,
               << << <<K_ACTION, json_text(StrV("grip"))>> >>,
                  << <<K_ACTION, json_text(StrV("grip"))>> >> >>, <<>>,
               "None", "None", NoValue)
    /\ UNCHANGED <<session, inbound_seen, aux>>

\* grip(): self._atc.send('{"action": "grip"}')
grip ==
    /\ Reports("grip", NoMsg, NoValue,
               << << <<K_ACTION, json_text(StrV("grip"))>> >> >>, <<>>,
               "None", "None", NoValue)
    /\ UNCHANGED <<session, inbound_seen, aux>>

\* release(): self._atc.send('{"action": "release"}')
release ==
    /\ Reports("release", NoMsg, NoValue,
               << << <<K_ACTION, json_text(StrV("release"))>> >> >>, <<>>,
               "None", "None", NoValue)
    /\ UNCHANGED <<session, inbound_seen, aux>>

\* self._atc.send('{"force_sensor_zeroing": ""}')
force_sensor_zeroing ==
    /\ Reports("force_sensor_zeroing", NoMsg, NoValue,
               << << <<K_FSZ, json_text(StrV(""))>> >> >>, <<>>, "None", "None",
               NoValue)
    /\ UNCHANGED <<session, inbound_seen, aux>>

\* The range of set_mode's argument.
MinMode == 1
MaxMode == 4

\* The arguments set_mode is called with in this model.
ModeArgs ==
    {IntV(n) : n \in (MinMode - 1)..(MaxMode + 1)}
    \cup {BoolV(1), FloatV(1), StrV("1")}

\* isinstance(v, int): bool is a subclass of int.
isinstance_int(v) == v.t \in {"int", "bool"}

\* not (not isinstance(mode, int) or not (1 <= mode <= 4))
mode_accepted(mode) ==
    ~(~isinstance_int(mode) \/ ~(MinMode <= mode.n /\ mode.n <= MaxMode))

\* A buggy set_mode: also records the commanded mode in the state mapping.
set_mode_recording(mode) ==
    IF mode_accepted(mode)
    THEN /\ Reports("set_mode", NoMsg, mode, << << <<K_MODE, py_str(mode)>> >> >>,
                    <<>>, "None", "None", NoValue)
         /\ _status' = dict_setitem(_status, K_MODE, mode)
         /\ UNCHANGED <<_force_callback, _callback_threshold,
                        _single_callback_mode, _last_force, inbound_seen, aux>>
    ELSE /\ Reports("set_mode", NoMsg, mode, <<>>, <<>>, "None", "ValueError",
                    NoValue)
         /\ UNCHANGED <<session, inbound_seen, aux>>

\* set_mode(mode): raise ValueError, or self._atc.send(f'{{"mode": {mode}}}')
set_mode(mode) ==
    /\ IF mode_accepted(mode)
       THEN Reports("set_mode", NoMsg, mode, << << <<K_MODE, py_str(mode)>> >> >>,
                    <<>>, "None", "None", NoValue)
       ELSE Reports("set_mode", NoMsg, mode, <<>>, <<>>, "None", "ValueError",
                    NoValue)
    /\ UNCHANGED <<session, inbound_seen, aux>>

\* force(): return self._status["force"]
force ==
    /\ Reports("force", NoMsg, NoValue, <<>>, <<>>, "None", "None",
               Get(_status, K_FORCE))
    /\ UNCHANGED <<session, inbound_seen, aux>>

\* What status() returns: self._status itself, not a copy of it.
status_result == [kind |-> "ref", val |-> <<>>]

\* status(): return self._status
status ==
    /\ ReportsCall("status", NoMsg, NoValue, <<>>, <<>>, "None", "None", NoValue)
    /\ ret_status' = status_result
    /\ UNCHANGED <<session, inbound_seen, aux>>

\* A buggy set_force_callback: starts the new configuration from lastForce 0.
SetCallbackEffect_reset(callback, threshold, single) ==
    /\ ReportsBase("set_force_callback", NoMsg, NoValue, <<>>, <<>>, "None",
                   "None", NoValue)
    /\ ret_status' = NoRef
    /\ cb_view' = <<>>
    /\ arg_cfg' = <<callback, threshold, single>>
    /\ _force_callback' = callback
    /\ _callback_threshold' = threshold
    /\ _single_callback_mode' = single
    /\ _last_force' = 0
    /\ UNCHANGED <<_status, inbound_seen>>

\* set_force_callback(callback, callback_threshold, single_callback_mode):
\* what it does to the session, run without interruption.
SetCallbackEffect(callback, threshold, single) ==
    /\ ReportsBase("set_force_callback", NoMsg, NoValue, <<>>, <<>>, "None",
                   "None", NoValue)
    /\ ret_status' = NoRef
    /\ cb_view' = <<>>
    /\ arg_cfg' = <<callback, threshold, single>>
    /\ _force_callback' = callback
    /\ _callback_threshold' = threshold
    /\ _single_callback_mode' = single
    /\ UNCHANGED <<_status, _last_force, inbound_seen>>

set_force_callback(callback, threshold, single) ==
    /\ SetCallbackEffect(callback, threshold, single)
    /\ UNCHANGED aux

\* _on_atc_message(msg): the try block, then the except clause, which logs
\* what it catches.  An exception it does not catch leaves the handler.
\* What it does to the session, run without interruption.
OnMessageEffect(msg) ==
    \E cb_raises \in (IF _force_callback = "None" THEN {FALSE} ELSE BOOLEAN) :
      \E r \in {try_block(msg, _status, _force_callback, _callback_threshold,
                           _single_callback_mode, _last_force, cb_raises)} :
        LET is_caught == r.exc # "None" /\ ExceptClause(r.exc)
        IN  /\ ReportsBase("_on_atc_message", msg, NoValue, <<>>, r.fired,
                           IF is_caught THEN r.exc ELSE "None",
                           IF is_caught THEN "None" ELSE r.exc, NoValue)
            /\ ret_status' = NoRef
            /\ arg_cfg' = NoCfg
            /\ cb_view' = r.view
            /\ _status' = r.status
            /\ _last_force' = r.last_force
            /\ inbound_seen' = TRUE
            /\ UNCHANGED <<_force_callback, _callback_threshold,
                           _single_callback_mode>>

_on_atc_message(msg) ==
    /\ OnMessageEffect(msg)
    /\ UNCHANGED aux

\* The caller writes to the mapping that status() has just returned to it:
\* d[k] = v.  Through a reference that is a write to self._status.
caller_setitem(k, v) ==
    /\ op = "status"
    /\ Reports("caller_setitem", NoMsg, NoValue, <<>>, <<>>, "None", "None",
               NoValue)
    /\ _status' = IF ret_status.kind = "ref" THEN dict_setitem(_status, k, v)
                  ELSE _status
    /\ UNCHANGED <<_force_callback, _callback_threshold, _single_callback_mode,
                   _last_force, inbound_seen, aux>>

Next ==
    \/ _on_connect
    \/ prepare
    \/ grip
    \/ release
    \/ \E mode \in ModeArgs : set_mode(mode)
    \/ force
    \/ force_sensor_zeroing
    \/ status
    \/ \E c \in CallbackConfigs : set_force_callback(c[1], c[2], c[3])
    \/ \E msg \in InboundMsgs : _on_atc_message(msg)

\* The session as its own operations change it.
Spec == Init /\ [][Next]_vars

NextCaller ==
    \/ Next
    \/ caller_setitem(K_ACTION, StrV("grip"))

\* The session with a caller that also writes to the mapping it was given.
SpecCaller == Init /\ [][NextCaller]_vars

NextFixed ==
    \/ _on_connect
    \/ prepare
    \/ grip
    \/ release
    \/ \E mode \in ModeArgs : set_mode(mode)
    \/ force
    \/ force_sensor_zeroing
    \/ status
    \/ \E msg \in InboundMsgs : _on_atc_message(msg)

\* The session when set_force_callback is never called: the callback
\* configuration is the one given at construction.
SpecFixed == Init /\ [][NextFixed]_vars

\* --------------------------------------- a reconfiguration, step by step
\* The message {"force": f}.
SampleMsg(f) == ObjMsg(<< <<K_FORCE, FloatV(f)>> >>)

\* set_force_callback(callback, threshold, False): delta mode is set.
sw_to_delta(threshold) ==
    /\ scen.phase \in {"start", "first"}
    /\ SetCallbackEffect("callback", threshold, FALSE)
    /\ scen' = [scen EXCEPT !.phase = "start"]
    /\ UNCHANGED conc

\* _on_atc_message('{"force": f}') in delta mode with a callback.
sw_delta_sample(f) ==
    /\ scen.phase \in {"start", "delta"}
    /\ ~_single_callback_mode /\ _force_callback # "None"
    /\ OnMessageEffect(SampleMsg(f))
    /\ scen' = [scen EXCEPT !.phase = "delta", !.prev = f]
    /\ UNCHANGED conc

\* set_force_callback(callback, threshold, True) after a delta-mode sample.
sw_to_single(threshold) ==
    /\ scen.phase = "delta"
    /\ SetCallbackEffect("callback", threshold, TRUE)
    /\ scen' = [scen EXCEPT !.phase = "switched"]
    /\ UNCHANGED conc

\* _on_atc_message('{"force": f}'), the first after the switch.  seen_a: it
\* has happened that the callback was invoked although the sample before
\* was at/above the new threshold; seen_b: that it was not invoked although
\* the sample before was below the new threshold and this one at/above it.
sw_first_sample(f) ==
    /\ scen.phase = "switched"
    /\ OnMessageEffect(SampleMsg(f))
    /\ scen' = [phase |-> "first", prev |-> f,
                seen_a |-> \/ scen.seen_a
                           \/ /\ fired' # <<>>
                              /\ scen.prev >= _callback_threshold,
                seen_b |-> \/ scen.seen_b
                           \/ /\ fired' = <<>>
                              /\ Abs(scen.prev) < _callback_threshold
                              /\ Abs(f) >= _callback_threshold]
    /\ UNCHANGED conc

NextSwitch ==
    \/ \E t \in Thresholds : sw_to_delta(t)
    \/ \E f \in Forces : sw_delta_sample(f)
    \/ \E t \in Thresholds : sw_to_single(t)
    \/ \E f \in Forces : sw_first_sample(f)

\* The session taken through force samples in delta mode, a switch to single
\* mode and the first sample after it, again and again.
SpecSwitch == Init /\ [][NextSwitch]_vars

\* ------------------------------------------- the two contexts, interleaved
\* What the operations report stays as it is while the steps below run.
reports == <<op, arg_msg, arg_mode, sent, fired, caught, raised, ret,
             ret_status, arg_cfg, cb_view>>

\* The current (callback, threshold, single mode) fields.
CurrentConfig ==
    <<_force_callback, _callback_threshold, _single_callback_mode>>

\* The handler reads a field: what it read is added to conc.h_reads.
Read(field, value) == Append(conc.h_reads, <<field, value>>)

\* The caller calls set_force_callback(c[1], c[2], c[3]), once.
c_set_call(c) ==
    /\ conc.s_pc = "idle"
    /\ conc' = [conc EXCEPT !.s_pc = "158", !.c_old = CurrentConfig,
                            !.c_new = c]
    /\ UNCHANGED <<session, inbound_seen, scen, reports>>

\* self._force_callback = callback
c_set_158 ==
    /\ conc.s_pc = "158"
    /\ _force_callback' = conc.c_new[1]
    /\ conc' = [conc EXCEPT !.s_pc = "159"]
    /\ UNCHANGED <<_status, _callback_threshold, _single_callback_mode,
                   _last_force, inbound_seen, scen, reports>>

\* self._callback_threshold = callback_threshold
c_set_159 ==
    /\ conc.s_pc = "159"
    /\ _callback_threshold' = conc.c_new[2]
    /\ conc' = [conc EXCEPT !.s_pc = "160"]
    /\ UNCHANGED <<_status, _force_callback, _single_callback_mode,
                   _last_force, inbound_seen, scen, reports>>

\* self._single_callback_mode = single_callback_mode; the call returns.
c_set_160 ==
    /\ conc.s_pc = "160"
    /\ _single_callback_mode' = conc.c_new[3]
    /\ conc' = [conc EXCEPT !.s_pc = "done"]
    /\ UNCHANGED <<_status, _force_callback, _callback_threshold,
                   _last_force, inbound_seen, scen, reports>>

\* The transport calls _on_atc_message('{"force": f}'): lines 164 to 167.
c_msg_merge(f) ==
    /\ conc.h_pc = "idle"
    /\ _status' = status_update(_status,
                      strip_zeroing(json_loads(SampleMsg(f)).val).val).status
    /\ inbound_seen' = TRUE
    /\ conc' = [conc EXCEPT !.h_pc = "169", !.h_force = f, !.h_reads = <<>>]
    /\ UNCHANGED <<_force_callback, _callback_threshold,
                   _single_callback_mode, _last_force, scen, reports>>

\* if "force" in res and self._force_callback
c_msg_169 ==
    /\ conc.h_pc = "169"
    /\ conc' = [conc EXCEPT
                  !.h_pc = IF _force_callback = "None" THEN "idle" ELSE "171",
                  !.h_reads = Read("callback", _force_callback)]
    /\ UNCHANGED <<session, inbound_seen, scen, reports>>

\* if self._single_callback_mode
c_msg_171 ==
    /\ conc.h_pc = "171"
    /\ conc' = [conc EXCEPT
                  !.h_pc = IF _single_callback_mode THEN "172" ELSE "176",
                  !.h_reads = Read("single", _single_callback_mode)]
    /\ UNCHANGED <<session, inbound_seen, scen, reports>>

\* abs(force_val) >= self._callback_threshold, the left operand of "and"
c_msg_172 ==
    /\ conc.h_pc = "172"
    /\ conc' = [conc EXCEPT
                  !.h_pc = IF Abs(conc.h_force) >= _callback_threshold
                           THEN "172b" ELSE "174",
                  !.h_reads = Read("threshold", _callback_threshold)]
    /\ UNCHANGED <<session, inbound_seen, scen, reports>>

\* self._last_force < self._callback_threshold, the right operand
c_msg_172b ==
    /\ conc.h_pc = "172b"
    /\ conc' = [conc EXCEPT
                  !.h_pc = IF _last_force < _callback_threshold
                           THEN "173" ELSE "174",
                  !.h_reads = Read("threshold", _callback_threshold)]
    /\ UNCHANGED <<session, inbound_seen, scen, reports>>

\* self._force_callback(force_val) in single mode: calling None raises
\* TypeError and the callback may raise; either way line 174 is skipped.
c_msg_173 ==
    /\ conc.h_pc = "173"
    /\ \E cb_raises \in BOOLEAN :
          conc' = [conc EXCEPT
                     !.h_pc = IF _force_callback = "None" \/ cb_raises
                              THEN "idle" ELSE "174",
                     !.h_reads = Read("callback", _force_callback)]
    /\ UNCHANGED <<session, inbound_seen, scen, reports>>

\* self._last_force = force_val, in single mode
c_msg_174 ==
    /\ conc.h_pc = "174"
    /\ _last_force' = conc.h_force
    /\ conc' = [conc EXCEPT !.h_pc = "idle"]
    /\ UNCHANGED <<_status, _force_callback, _callback_threshold,
                   _single_callback_mode, inbound_seen, scen, reports>>

\* if abs(self._last_force - force_val) >= self._callback_threshold
c_msg_176 ==
    /\ conc.h_pc = "176"
    /\ conc' = [conc EXCEPT
                  !.h_pc = IF Abs(_last_force - conc.h_force)
                                >= _callback_threshold
                           THEN "177" ELSE "idle",
                  !.h_reads = Read("threshold", _callback_threshold)]
    /\ UNCHANGED <<session, inbound_seen, scen, reports>>

\* self._last_force = force_val, in delta mode
c_msg_177 ==
    /\ conc.h_pc = "177"
    /\ _last_force' = conc.h_force
    /\ conc' = [conc EXCEPT !.h_pc = "178"]
    /\ UNCHANGED <<_status, _force_callback, _callback_threshold,
                   _single_callback_mode, inbound_seen, scen, reports>>

\* self._force_callback(force_val) in delta mode
c_msg_178 ==
    /\ conc.h_pc = "178"
    /\ conc' = [conc EXCEPT !.h_pc = "idle",
                            !.h_reads = Read("callback", _force_callback)]
    /\ UNCHANGED <<session, inbound_seen, scen, reports>>

NextConc ==
    \/ \E c \in CallbackConfigs : c_set_call(c)
    \/ c_set_158
    \/ c_set_159
    \/ c_set_160
    \/ \E f \in Forces : c_msg_merge(f)
    \/ c_msg_169
    \/ c_msg_171
    \/ c_msg_172
    \/ c_msg_172b
    \/ c_msg_173
    \/ c_msg_174
    \/ c_msg_176
    \/ c_msg_177
    \/ c_msg_178

\* One call of set_force_callback in the caller's context while the
\* transport's context runs the handler on force samples, a line at a time.
SpecConc == Init /\ [][NextConc]_vars

\* ------------------------------------------------------------------ claims
\* A force sample: a JSON object whose "force" is a number.
IsSample(m) ==
    m.kind = "object" /\ Has(m.obj, K_FORCE) /\ IsNumber(Get(m.obj, K_FORCE))

SampleOf(m) == Get(m.obj, K_FORCE).n

\* Message m carries value v under key k: as a member of a JSON object, or
\* as a [k, v] item of a JSON array.
Carries(m, k, v) ==
    \/ m.kind = "object" /\ Has(m.obj, k) /\ Get(m.obj, k) = v
    \/ m.kind = "array" /\ \E i \in 1..Len(m.items) :
          m.items[i].pair /\ m.items[i].k = k /\ m.items[i].v = v

PayloadErrors == {"JSONDecodeError", "TypeError", "AttributeError", "ValueError"}

\* C1: in single mode with a callback registered, of two force samples
\* delivered one after the other the second invokes the callback only if its
\* magnitude is at/above the threshold and the first was below the threshold,
\* and never if both are at/above the threshold in magnitude and the first
\* invoked the callback (stated for callbacks that return normally).
C1_RisingEdge ==
    [][(/\ op = "_on_atc_message" /\ IsSample(arg_msg) /\ caught = "None"
        /\ op' = "_on_atc_message" /\ IsSample(arg_msg') /\ caught' = "None"
        /\ _single_callback_mode /\ _force_callback # "None")
       => LET prev == SampleOf(arg_msg)
              f    == SampleOf(arg_msg')
              thr  == _callback_threshold
          IN  /\ fired' # <<>> => (Abs(f) >= thr /\ prev < thr)
              /\ (Abs(prev) >= thr /\ Abs(f) >= thr /\ fired # <<>>)
                    => fired' = <<>>]_vars

\* C2: in delta mode with a callback registered, a force sample f invokes the
\* callback, with f, exactly if abs(lastForce - f) >= threshold, and lastForce
\* becomes f exactly then; and while the session is in delta mode lastForce
\* changes on no other step, so it is the value last reported to the callback.
C2_Delta ==
    [][/\ (/\ op' = "_on_atc_message" /\ IsSample(arg_msg')
           /\ ~_single_callback_mode /\ _force_callback # "None")
          => LET f     == SampleOf(arg_msg')
                 fires == Abs(_last_force - f) >= _callback_threshold
             IN  /\ fired' = IF fires THEN <<f>> ELSE <<>>
                 /\ _last_force' = IF fires THEN f ELSE _last_force
       /\ ~_single_callback_mode
          => _last_force' = IF fired' # <<>> THEN fired'[Len(fired')]
                            ELSE _last_force]_vars

\* A delta-mode sample below the threshold after one that was reported: the
\* callback is not invoked and lastForce stays at the reported value.
C2_Witness ==
    /\ op = "_on_atc_message" /\ IsSample(arg_msg)
    /\ ~_single_callback_mode /\ _force_callback # "None"
    /\ fired = <<>>
    /\ _last_force = MaxForce
    /\ SampleOf(arg_msg) = MaxForce - 1

\* C3: a message the handler fails on (not JSON, or JSON of another shape
\* than expected) is dropped whole: the mapping and lastForce are as before
\* and the callback is not invoked.
C3_DroppedWhole ==
    [][(op' = "_on_atc_message" /\ caught' \in PayloadErrors)
       => /\ _status' = _status
          /\ _last_force' = _last_force
          /\ fired' = <<>>]_vars

\* C4: no exception leaves the inbound message handler, whatever the message
\* and whether or not the callback raises.
C4_NoEscape == op = "_on_atc_message" => raised = "None"

\* The callback was invoked, raised, and the handler caught it.
C4_Witness ==
    op = "_on_atc_message" /\ fired # <<>> /\ caught = "CallbackError"

\* C5: set_mode sends {"mode": mode} and raises nothing for an integer in
\* 1..4; for anything else it raises ValueError and sends nothing.
C5_SetMode ==
    op = "set_mode"
    => IF arg_mode.t = "int" /\ arg_mode.n \in MinMode..MaxMode
       THEN raised = "None" /\ sent = << << <<K_MODE, ToString(arg_mode.n)>> >> >>
       ELSE raised = "ValueError" /\ sent = <<>>

\* C6: the on-connect handler sends exactly one message, the JSON text of
\* the whole mapping: every key of it, in order, with its value.
C6_Resync ==
    op = "_on_connect"
    => /\ Len(sent) = 1
       /\ Len(sent[1]) = Len(_status)
       /\ \A i \in 1..Len(_status) :
             sent[1][i] = <<_status[i][1], json_text(_status[i][2])>>
       /\ raised = "None"

\* A (re)connection after inbound messages have merged an unknown key and a
\* force reading.
C6_Witness ==
    /\ op = "_on_connect"
    /\ Has(_status, K_TEMP)
    /\ Get(_status, K_FORCE) = FloatV(MaxForce)
    /\ Len(sent) = 1 /\ Len(sent[1]) > Len(InitStatus)

\* C7: what status() returned is a snapshot: an inbound message processed
\* after the call does not change it, and the caller writing to it does not
\* change the session's mapping.
C7_Snapshot ==
    [][/\ (op = "status" /\ op' = "_on_atc_message")
          => (IF ret_status.kind = "ref" THEN _status' ELSE ret_status.val)
             = (IF ret_status.kind = "ref" THEN _status ELSE ret_status.val)
       /\ (op = "status" /\ op' = "caller_setitem")
          => _status' = _status]_vars

\* C8: force_sensor_zeroing is never a key of the mapping, and the other
\* keys of a message that carried it are merged.
C8_NoZeroingKey ==
    /\ ~Has(_status, K_FSZ)
    /\ (/\ op = "_on_atc_message" /\ arg_msg.kind = "object"
        /\ Has(arg_msg.obj, K_FSZ) /\ IsSample(arg_msg))
       => Get(_status, K_FORCE) = Get(arg_msg.obj, K_FORCE)

\* C9: merging a JSON object is a superset-merge: each key of the message but
\* force_sensor_zeroing takes the message's value and every other key keeps
\* its own; no step removes a key; mode, action and force are always keys;
\* force() is the mapping's force, which changes only to the force of a
\* message that carries one.
C9_SupersetMerge ==
    /\ []({K_MODE, K_ACTION, K_FORCE} \subseteq DictKeys(_status))
    /\ [](op = "force" => ret = Get(_status, K_FORCE))
    /\ [][/\ DictKeys(_status) \subseteq DictKeys(_status')
          /\ (op' = "_on_atc_message" /\ arg_msg'.kind = "object")
             => LET mk == DictKeys(arg_msg'.obj) \ {K_FSZ} IN
                /\ DictKeys(_status') = DictKeys(_status) \cup mk
                /\ \A k \in DictKeys(_status') :
                      Get(_status', k) = IF k \in mk THEN Get(arg_msg'.obj, k)
                                         ELSE Get(_status, k)
          /\ Get(_status', K_FORCE) # Get(_status, K_FORCE)
             => /\ op' = "_on_atc_message"
                /\ Carries(arg_msg', K_FORCE, Get(_status', K_FORCE))]_vars

\* A force message merged after a status report with an unknown key: force
\* is overwritten, mode, action and the unknown key stay.
C9_Witness ==
    /\ op = "_on_atc_message"
    /\ arg_msg = ObjMsg(<< <<K_FORCE, FloatV(MaxForce)>> >>)
    /\ Get(_status, K_FORCE) = FloatV(MaxForce)
    /\ Get(_status, K_MODE) = IntV(2)
    /\ Has(_status, K_TEMP)

\* C10: until an inbound message is processed the mapping is the one built
\* at construction, whatever commands, queries, reconfigurations and
\* on-connect events have run.
C10_OnlyInbound == ~inbound_seen => _status = InitStatus

\* A valid set_mode before any inbound message.
C10_Witness ==
    /\ ~inbound_seen
    /\ op = "set_mode" /\ arg_mode = IntV(MaxMode) /\ sent # <<>>

\* What the threshold evaluation of sample f is to do under the configuration
\* (cb, thr, single) with last force last: the values the callback gets.
ExpectedFired(cb, thr, single, last, f) ==
    IF cb = "None" THEN <<>>
    ELSE IF single
    THEN (IF Abs(f) >= thr /\ last < thr THEN <<f>> ELSE <<>>)
    ELSE (IF Abs(last - f) >= thr THEN <<f>> ELSE <<>>)

\* C11: set_force_callback replaces the (callback, threshold, single mode)
\* triple by its arguments and does nothing else: the last force and the
\* mapping stay, nothing is sent, no callback is invoked by the call itself,
\* and a force sample that comes next is evaluated under the new triple.
C11_ReplacesTriple ==
    [][/\ (op' = "set_force_callback" =>
              /\ <<_force_callback', _callback_threshold',
                   _single_callback_mode'>> = arg_cfg'
              /\ _last_force' = _last_force
              /\ _status' = _status
              /\ fired' = <<>> /\ sent' = <<>>
              /\ caught' = "None" /\ raised' = "None")
       /\ (op = "set_force_callback" /\ op' = "_on_atc_message"
             /\ IsSample(arg_msg') =>
              fired' = ExpectedFired(arg_cfg[1], arg_cfg[2], arg_cfg[3],
                                     _last_force, SampleOf(arg_msg')))]_vars

\* A reconfiguration to single mode after force samples have moved the last
\* force off its initial value.
C11_Witness ==
    /\ op = "set_force_callback"
    /\ arg_cfg = <<"callback", 1, TRUE>>
    /\ _last_force = MaxForce
    /\ Get(_status, K_FORCE) = FloatV(0)

\* C13: each call of prepare(), grip(), release() and force_sensor_zeroing()
\* hands the transport one message, with the payload fixed for the command,
\* during the call (so in the order of the calls); it returns nothing, raises
\* nothing and touches neither the mapping nor the callback configuration.
C13_OneFixedMessage ==
    [][/\ (op' = "prepare" => sent' = << << <<"action", "\"prepare\"">> >> >>)
       /\ (op' = "grip" => sent' = << << <<"action", "\"grip\"">> >> >>)
       /\ (op' = "release" => sent' = << << <<"action", "\"release\"">> >> >>)
       /\ (op' = "force_sensor_zeroing" =>
              sent' = << << <<"force_sensor_zeroing", "\"\"">> >> >>)
       /\ (op' \in {"prepare", "grip", "release", "force_sensor_zeroing"} =>
              /\ ret' = NoValue /\ raised' = "None" /\ fired' = <<>>
              /\ UNCHANGED <<session, inbound_seen>>)]_vars

\* grip() called while the device reports another action.
C13_Witness ==
    /\ op = "grip"
    /\ Len(sent) = 1
    /\ Get(_status, K_ACTION) = StrV("release")
    /\ inbound_seen

\* C14: in single mode with a callback registered, once the handler has
\* processed a message with force sample f the last force is f, whether or
\* not the callback was invoked and also when the callback raised.
C14_LastForceFollows ==
    (/\ op = "_on_atc_message" /\ IsSample(arg_msg)
     /\ _single_callback_mode /\ _force_callback # "None")
    => _last_force = SampleOf(arg_msg)

\* A message has a "force" key: it is a JSON object with that member.
HasForceKey(m) == m.kind = "object" /\ Has(m.obj, K_FORCE)

\* C15: a message without a "force" key, and any message processed while no
\* callback is registered, invokes no callback and leaves the last force;
\* a force sample processed while no callback is registered still reaches
\* the mapping; no operation but the inbound handler changes the last force.
C15_EvaluationGuard ==
    [][/\ (op' = "_on_atc_message"
             /\ (~HasForceKey(arg_msg') \/ _force_callback = "None") =>
              fired' = <<>> /\ _last_force' = _last_force)
       /\ (op' = "_on_atc_message" /\ IsSample(arg_msg')
             /\ _force_callback = "None" =>
              Get(_status', K_FORCE) = Get(arg_msg'.obj, K_FORCE))
       /\ (op' # "_on_atc_message" => _last_force' = _last_force)]_vars

\* A force sample merged while no callback is registered: the mapping has
\* it, the last force does not.
C15_Witness ==
    /\ op = "_on_atc_message"
    /\ arg_msg = ObjMsg(<< <<K_FORCE, FloatV(MaxForce)>> >>)
    /\ _force_callback = "None"
    /\ Get(_status, K_FORCE) = FloatV(MaxForce)
    /\ _last_force = 1
    /\ fired = <<>>

\* C17: in delta mode with the callback and a positive threshold unchanged
\* since construction, after every processed force sample the force in the
\* mapping is less than the threshold away from the last force.
C17_DeltaBound ==
    (/\ op = "_on_atc_message" /\ IsSample(arg_msg)
     /\ ~_single_callback_mode /\ _force_callback # "None"
     /\ _callback_threshold > 0)
    => Abs(Get(_status, K_FORCE).n - _last_force) < _callback_threshold

\* C17 as claimed, for every non-negative threshold.
C17_DeltaBoundNonNegative ==
    (/\ op = "_on_atc_message" /\ IsSample(arg_msg)
     /\ ~_single_callback_mode /\ _force_callback # "None"
     /\ _callback_threshold >= 0)
    => Abs(Get(_status, K_FORCE).n - _last_force) < _callback_threshold

\* A sample one step short of the threshold away from the last reported
\* value: it is not reported.
C17_Witness ==
    /\ op = "_on_atc_message" /\ IsSample(arg_msg)
    /\ ~_single_callback_mode /\ _force_callback # "None"
    /\ _callback_threshold = MaxForce
    /\ _last_force = 0 - 1
    /\ SampleOf(arg_msg) = 0
    /\ fired = <<>>

\* C18: whenever the callback is invoked with force value f, the mapping it
\* finds already holds the whole message: f under "force" and every other
\* key of the message with the message's value (the zeroing key, which is
\* dropped, aside); the mapping is the same when the handler has returned.
C18_MergedBeforeCallback ==
    fired # <<>> =>
       /\ op = "_on_atc_message" /\ arg_msg.kind = "object"
       /\ Has(cb_view, K_FORCE)
       /\ Get(cb_view, K_FORCE) = Get(arg_msg.obj, K_FORCE)
       /\ Get(cb_view, K_FORCE).n = fired[1]
       /\ \A i \in 1..Len(arg_msg.obj) :
             arg_msg.obj[i][1] # K_FSZ =>
                /\ Has(cb_view, arg_msg.obj[i][1])
                /\ Get(cb_view, arg_msg.obj[i][1]) = arg_msg.obj[i][2]
       /\ _status = cb_view

\* The callback invoked on a message that also brings a key the mapping did
\* not have.
C18_Witness ==
    /\ fired = <<1>>
    /\ arg_msg = ObjMsg(<< <<K_FSZ, StrV("")>>, <<K_FORCE, FloatV(1)>>,
                           <<K_TEMP, IntV(1)>> >>)
    /\ Get(cb_view, K_MODE) = IntV(1)
    /\ Has(cb_view, K_TEMP)

\* The commands that ask the device for a mode or an action.
Commands == {"set_mode", "prepare", "grip", "release"}

\* The message out (a sequence of members) has member k with value text t.
HasMember(out, k, t) == \E i \in 1..Len(out) : out[i] = <<k, t>>

\* C19: a command leaves the mode and the action of the mapping as they
\* were, and an on-connect event that comes right after a command sends a
\* resync message with that mode and that action.
C19_ResyncReported ==
    [][/\ (op' \in Commands =>
              /\ Get(_status', K_MODE) = Get(_status, K_MODE)
              /\ Get(_status', K_ACTION) = Get(_status, K_ACTION))
       /\ (op \in Commands /\ op' = "_on_connect" =>
              /\ Len(sent') = 1
              /\ HasMember(sent'[1], K_MODE, json_text(Get(_status, K_MODE)))
              /\ HasMember(sent'[1], K_ACTION,
                           json_text(Get(_status, K_ACTION))))]_vars

\* set_mode for a mode other than the one the device reported last.
C19_Witness ==
    /\ op = "set_mode" /\ arg_mode = IntV(MaxMode) /\ raised = "None"
    /\ Get(_status, K_MODE) = IntV(2)
    /\ Get(_status, K_ACTION) = StrV("grip")

\* C16: the switch from delta to single mode keeps the last force, and the
\* first sample after it invokes the callback exactly when its magnitude is
\* at/above the new threshold and that kept last force is below it, whatever
\* the sample before the switch was.
C16_FirstAfterSwitch ==
    [][/\ (scen.phase = "delta" /\ scen'.phase = "switched" =>
              _last_force' = _last_force)
       /\ (scen.phase = "switched" /\ scen'.phase = "first" =>
              ((fired' # <<>>) <=>
                  /\ Abs(SampleOf(arg_msg')) >= _callback_threshold
                  /\ _last_force < _callback_threshold))]_vars

\* Both outcomes have happened: an invocation although the sample before the
\* switch was at/above the new threshold, and a suppression although it was
\* below and the new sample is at/above.
C16_Witness == scen.seen_a /\ scen.seen_b

\* The handler's read r took its value from the configuration c.
ReadFrom(r, c) ==
    CASE r[1] = "callback"  -> r[2] = c[1]
      [] r[1] = "threshold" -> r[2] = c[2]
      [] r[1] = "single"    -> r[2] = c[3]

\* C12: whatever way the steps of one set_force_callback call and of the
\* handler's evaluation interleave, the fields an evaluation reads all come
\* from one configuration: the one before the call or the one it installs.
C12_WholeTriple ==
    \E c \in (IF conc.s_pc = "idle" THEN {CurrentConfig}
              ELSE {conc.c_old, conc.c_new}) :
       \A i \in 1..Len(conc.h_reads) : ReadFrom(conc.h_reads[i], c)

====
